---- MODULE Spec2Model ----
(***************************************************************************)
(* The evaluation harness of irit_rst_dt (cmd/evaluate.py): main runs the   *)
(* learner and the decoder of attelo over every training corpus, every     *)
(* fold and every evaluation configuration, one step at a time, and skips  *)
(* the steps whose output files are already on disk.                       *)
(*                                                                         *)
(* The state is the data directory as the harness sees it, plus the        *)
(* position of the one main process.  The harness reaches an evaluation or *)
(* scratch directory only through the pair of paths _create_eval_dirs      *)
(* returns, which are the targets of eval-current and scratch-current; the *)
(* model therefore keeps the names of all timestamped directories          *)
(* (evalDirs, scratchDirs) and the contents of the two the symlinks point  *)
(* to (files, foldFile).  A process may be killed between any two steps.   *)
(***************************************************************************)
EXTENDS Integers, Sequences, FiniteSets

\* ------------------------------------------------------------ configuration

\* distinct values timestamp() returns in the model
MaxTime == 2
\* documents of a corpus
NumDocs == 2
\* folds attelo enfold is configured to make
NFolds == 2

TRAINING_CORPORA == <<"corpusA", "corpusB">>

EVALUATIONS ==
    << [name |-> "l1-d1", learner |-> "l1", decoder |-> "d1"],
       [name |-> "l1-d2", learner |-> "l1", decoder |-> "d2"],
       [name |-> "l2-d1", learner |-> "l2", decoder |-> "d1"] >>

Datasets == {TRAINING_CORPORA[i] : i \in 1..Len(TRAINING_CORPORA)}
Docs == 1..NumDocs
FoldVals == 0..(NFolds - 1)
Times == 1..MaxTime
NoFile == << >>
\* the fold field of a path or an event that is not inside a fold
NoFold == 0 - 1

VARIABLES
    data,           \* the data directory: [exists, edus]
    evalDirs,       \* timestamps t for which eval-t exists
    scratchDirs,    \* timestamps t for which scratch-t exists
    evalTs,         \* target of the eval-current symlink, 0: no symlink
    scratchTs,      \* target of the scratch-current symlink, 0: no symlink
    files,          \* paths that exist under the two current directories
    foldFile,       \* foldFile[dataset]: contents of folds-<dataset>.json
    pc,             \* position of the main process
    status,         \* how the last run ended
    resume,         \* args.resume of the run
    eval_dir,       \* the run's eval_dir
    scratch_dir,    \* the run's scratch_dir
    ci,             \* index in TRAINING_CORPORA of the corpus in the loop
    todo,           \* folds of the corpus not yet iterated
    fold,           \* fold of the _do_fold in progress
    ei,             \* index in EVALUATIONS of the _do_tuple in progress
    idx,            \* rows written to the corpus-level count index
    fold_idx,       \* rows written to the fold-level count index
    running,        \* external learner/decoder calls in progress
    log,            \* steps of the current run, in order
    completed,      \* a run has completed on the current directory pair
    startCompleted  \* the run is a --resume started on a completed pair

fsvars == <<data, evalDirs, scratchDirs, evalTs, scratchTs, files, foldFile>>
runvars == <<pc, status, resume, eval_dir, scratch_dir, ci, todo, fold, ei,
             idx, fold_idx, running, log, completed, startCompleted>>
vars == <<fsvars, runvars>>

\* ------------------------------------------------------------------- paths

Path(top, ts, fld, kind, ds, who, mtype) ==
    [top |-> top, ts |-> ts, fold |-> fld, kind |-> kind, ds |-> ds,
     who |-> who, mtype |-> mtype]

LoopConfig(ed, sd, dataset) ==
    [eval_dir |-> ed, scratch_dir |-> sd, dataset |-> dataset]

_features_path(lconf) ==
    Path("eval", lconf.eval_dir, NoFold, "relations.sparse", lconf.dataset, "", "")

_edu_input_path(lconf) ==
    [_features_path(lconf) EXCEPT !.kind = "relations.sparse.edu_input"]

_fold_dir_path(lconf, fld) ==
    Path("scratch", lconf.scratch_dir, fld, "dir", "", "", "")

_eval_model_path(lconf, econf, fld, mtype) ==
    [_fold_dir_path(lconf, fld) EXCEPT !.kind = "model", !.ds = lconf.dataset,
                                       !.who = econf.learner, !.mtype = mtype]

_counts_file_path(lconf, econf, fld) ==
    [_fold_dir_path(lconf, fld) EXCEPT !.kind = "counts", !.who = econf.name]

_decode_output_path(lconf, econf, fld) ==
    [_fold_dir_path(lconf, fld) EXCEPT !.kind = "output", !.who = econf.name]

\* parent is a fold directory or the top of an eval or scratch directory
_index_file_path(parent, lconf) ==
    [parent EXCEPT !.kind = "count-index", !.ds = lconf.dataset]

_score_file_path_prefix(parent, lconf) ==
    [parent EXCEPT !.kind = "scores", !.ds = lconf.dataset]

EvalTop(lconf) == Path("eval", lconf.eval_dir, NoFold, "dir", "", "", "")
ScratchTop(lconf) == Path("scratch", lconf.scratch_dir, NoFold, "dir", "", "", "")

\* fp.exists / os.path.exists
Exists(fs, p) == p \in fs

CurrentExists(dirs, ts) == ts # 0 /\ ts \in dirs

Max(S) == CHOOSE m \in S : \A x \in S : x <= m
Min(S) == CHOOSE m \in S : \A x \in S : m <= x
Range(f) == {f[x] : x \in DOMAIN f}

\* ------------------------------------------------------ external programs

\* timestamp(): the clock never runs backwards; two runs may start within
\* the same second
timestamp == {t \in Times : t >= Max(evalDirs \cup {0}) /\ t <= Max(evalDirs \cup {0}) + 1}

\* attelo enfold: the fold numbers i % NFolds of the documents, shuffled
FoldCount(v) == Cardinality({i \in 0..(NumDocs - 1) : i % NFolds = v})
EnfoldOutputs ==
    {a \in [Docs -> FoldVals] :
        \A v \in FoldVals : Cardinality({d \in Docs : a[d] = v}) = FoldCount(v)}

\* attelo learn: saves the attachment model, then the relation model
LearnerOutput(lconf, econf, fld) ==
    {_eval_model_path(lconf, econf, fld, "attach"),
     _eval_model_path(lconf, econf, fld, "relate")}

\* attelo decode: writes its output and the counts file
DecoderOutput(lconf, econf, fld) ==
    {_decode_output_path(lconf, econf, fld), _counts_file_path(lconf, econf, fld)}

\* ------------------------------------------------------------------ events

Event(op, ds, fld, econf) ==
    [op |-> op, ds |-> ds, fold |-> fld, econf |-> econf, idx |-> << >>]

\* _do_tuple's return value, a counts index entry
IdxEntry(econf, fld) == [config |-> econf.name, fold |-> fld]

\* ----------------------------------------------------------------- initial

Init ==
    /\ data \in {[exists |-> FALSE, edus |-> {}]}
                \cup {[exists |-> TRUE, edus |-> E] : E \in SUBSET Datasets}
    /\ evalDirs = {}
    /\ scratchDirs = {}
    /\ evalTs = 0
    /\ scratchTs = 0
    /\ files = {}
    /\ foldFile = [d \in Datasets |-> NoFile]
    /\ pc = "stopped"
    /\ status = ""
    /\ resume = FALSE
    /\ eval_dir = 0
    /\ scratch_dir = 0
    /\ ci = 0
    /\ todo = {}
    /\ fold = NoFold
    /\ ei = 0
    /\ idx = << >>
    /\ fold_idx = << >>
    /\ running = {}
    /\ log = << >>
    /\ completed = FALSE
    /\ startCompleted = FALSE

\* the process is gone: nothing of the run is left but the files
Stopped(msg) ==
    /\ pc' = "stopped"
    /\ status' = msg
    /\ resume' = FALSE
    /\ eval_dir' = 0
    /\ scratch_dir' = 0
    /\ ci' = 0
    /\ todo' = {}
    /\ fold' = NoFold
    /\ ei' = 0
    /\ idx' = << >>
    /\ fold_idx' = << >>
    /\ running' = {}
    /\ log' = << >>
    /\ startCompleted' = FALSE

\* -------------------------------------------------------- _create_eval_dirs

DirState(ed, sd, et, st, fs, ff) ==
    [evalDirs |-> ed, scratchDirs |-> sd, evalTs |-> et, scratchTs |-> st,
     files |-> fs, foldFile |-> ff]

CurrentDirState == DirState(evalDirs, scratchDirs, evalTs, scratchTs, files, foldFile)

\* hard links of the data files of every gathered dataset
_link_data_files(ed) ==
    {_edu_input_path(LoopConfig(ed, 0, d)) : d \in data.edus}
    \cup {_features_path(LoopConfig(ed, 0, d)) : d \in data.edus}

\* lines 475-479: the eval directory of a fresh run
MakeEvalDir(s, tstamp) ==
    [s EXCEPT !.evalDirs = @ \cup {tstamp},
              !.evalTs = tstamp,
              !.files = {p \in @ : p.top # "eval"} \cup _link_data_files(tstamp),
              !.foldFile = [d \in Datasets |-> NoFile]]

\* lines 483-486: the scratch directory of a fresh run
MakeScratchDir(s, tstamp) ==
    IF tstamp \notin s.scratchDirs
    THEN [s EXCEPT !.scratchDirs = @ \cup {tstamp},
                   !.scratchTs = tstamp,
                   !.files = {p \in @ : p.top # "scratch"}]
    ELSE s

Outcome(exit, ed, sd, s) ==
    [exit |-> exit, eval_dir |-> ed, scratch_dir |-> sd, fs |-> s]

\* mutant: args.resume is not looked at
_create_eval_dirs_IgnoreResume(res, tstamp) ==
    IF tstamp \notin evalDirs
    THEN Outcome("", tstamp, tstamp,
                 MakeScratchDir(MakeEvalDir(CurrentDirState, tstamp), tstamp))
    ELSE Outcome("tryagain", 0, 0, CurrentDirState)

\* mutant: "and" for the "or" of line 469
_create_eval_dirs_And(res, tstamp) ==
    IF res
    THEN IF ~CurrentExists(evalDirs, evalTs) /\ ~CurrentExists(scratchDirs, scratchTs)
         THEN Outcome("noresume", 0, 0, CurrentDirState)
         ELSE Outcome("", evalTs, scratchTs, CurrentDirState)
    ELSE IF tstamp \notin evalDirs
         THEN Outcome("", tstamp, tstamp,
                      MakeScratchDir(MakeEvalDir(CurrentDirState, tstamp), tstamp))
         ELSE Outcome("tryagain", 0, 0, CurrentDirState)

_create_eval_dirs(res, tstamp) ==
    IF res
    THEN IF ~CurrentExists(evalDirs, evalTs) \/ ~CurrentExists(scratchDirs, scratchTs)
         THEN Outcome("noresume", 0, 0, CurrentDirState)
         ELSE Outcome("", evalTs, scratchTs, CurrentDirState)
    ELSE IF tstamp \notin evalDirs
         THEN Outcome("", tstamp, tstamp,
                      MakeScratchDir(MakeEvalDir(CurrentDirState, tstamp), tstamp))
         ELSE Outcome("tryagain", 0, 0, CurrentDirState)

SetDirState(s) ==
    /\ evalDirs' = s.evalDirs
    /\ scratchDirs' = s.scratchDirs
    /\ evalTs' = s.evalTs
    /\ scratchTs' = s.scratchTs
    /\ foldFile' = s.foldFile

SamePair(s) == s.evalTs = evalTs /\ s.scratchTs = scratchTs

\* -------------------------------------------------------------------- main

\* main, lines 498-504, up to the loop over the corpora
MainStart ==
    /\ pc = "stopped"
    /\ \E res \in BOOLEAN, tstamp \in timestamp :
        IF ~data.exists
        THEN /\ Stopped("ungathered")
             /\ UNCHANGED <<fsvars, completed>>
        ELSE LET r == _create_eval_dirs(res, tstamp) IN
             /\ SetDirState(r.fs)
             /\ UNCHANGED data
             /\ completed' = (completed /\ SamePair(r.fs))
             /\ IF r.exit # ""
                THEN /\ Stopped(r.exit)
                     /\ files' = r.fs.files
                ELSE /\ files' = r.fs.files \cup
                            {Path("eval", r.eval_dir, NoFold, "versions.txt", "", "", "")}
                     /\ pc' = "corpus"
                     /\ status' = "running"
                     /\ resume' = res
                     /\ eval_dir' = r.eval_dir
                     /\ scratch_dir' = r.scratch_dir
                     /\ ci' = 1
                     /\ startCompleted' = (res /\ completed)
                     /\ log' = << >>
                     /\ todo' = {}
                     /\ fold' = NoFold
                     /\ ei' = 0
                     /\ idx' = << >>
                     /\ fold_idx' = << >>
                     /\ running' = {}

\* the process dies in _create_eval_dirs after line 479 and before line 483
MainKilledInCreate ==
    /\ pc = "stopped"
    /\ data.exists
    /\ \E tstamp \in timestamp :
        /\ tstamp \notin evalDirs
        /\ LET s == MakeEvalDir(CurrentDirState, tstamp) IN
            /\ SetDirState(s)
            /\ files' = s.files
    /\ completed' = FALSE
    /\ Stopped("killed")
    /\ UNCHANGED data

lconf == LoopConfig(eval_dir, scratch_dir, TRAINING_CORPORA[ci])

\* ----------------------------------------------------------------- corpus

\* mutant: the check of line 423 is dropped
EduInputMissing_Dropped(fs, lc) == FALSE

\* line 423
EduInputMissing(fs, lc) == ~Exists(fs, _edu_input_path(lc))

\* for fold in frozenset(dconf.folds.values()): CPython iterates a set of
\* small non-negative integers in increasing order
NextFold(S) == Min(S)

\* _do_corpus, lines 420-437, up to the loop over the folds; when the EDU
\* input is missing the run ends with the message of _exit_ungathered
DoCorpus ==
    /\ pc = "corpus"
    /\ IF EduInputMissing(files, lconf)
       THEN /\ pc' = "stopped"
            /\ status' = "ungathered"
            /\ UNCHANGED <<fsvars, resume, eval_dir, scratch_dir, ci, todo, fold, ei,
                           idx, fold_idx, running, log, completed, startCompleted>>
       ELSE \E a \in EnfoldOutputs :
            /\ foldFile' = [foldFile EXCEPT ![lconf.dataset] = a]
            /\ files' = files \cup {_index_file_path(ScratchTop(lconf), lconf)}
            /\ log' = Append(log, Event("enfold", lconf.dataset, NoFold, ""))
            /\ todo' = Range(a)
            /\ idx' = << >>
            /\ pc' = "folds"
            /\ UNCHANGED <<data, evalDirs, scratchDirs, evalTs, scratchTs, status,
                           resume, eval_dir, scratch_dir, ci, fold, ei, fold_idx,
                           running, completed, startCompleted>>

\* _mk_report: the pretty file is opened for writing before attelo report runs
_mk_report(parent, lc) == {_score_file_path_prefix(parent, lc)}

\* _do_corpus, line 440, and the step of main's loop to the next corpus
CorpusReport ==
    /\ pc = "folds"
    /\ todo = {}
    /\ files' = files \cup _mk_report(EvalTop(lconf), lconf)
    /\ log' = Append(log, [Event("corpus_report", lconf.dataset, NoFold, "")
                             EXCEPT !.idx = idx])
    /\ IF ci < Len(TRAINING_CORPORA)
       THEN /\ ci' = ci + 1
            /\ pc' = "corpus"
            /\ UNCHANGED <<status, completed>>
       ELSE /\ pc' = "stopped"
            /\ status' = "done"
            /\ completed' = TRUE
            /\ UNCHANGED ci
    /\ UNCHANGED <<data, evalDirs, scratchDirs, evalTs, scratchTs, foldFile, resume,
                   eval_dir, scratch_dir, todo, fold, ei, idx, fold_idx, running,
                   startCompleted>>

\* ------------------------------------------------------------------- fold

\* line 399
FoldAlreadyRun(fs, lc, fld) ==
    Exists(fs, _score_file_path_prefix(_fold_dir_path(lc, fld), lc))

\* _do_fold, lines 397-408, up to the loop over EVALUATIONS
DoFold ==
    /\ pc = "folds"
    /\ todo # {}
    /\ LET f == NextFold(todo) IN
        /\ todo' = todo \ {f}
        /\ IF FoldAlreadyRun(files, lconf, f)
           THEN /\ log' = Append(log, Event("fold_skip", lconf.dataset, f, ""))
                /\ UNCHANGED <<files, pc, fold, ei, fold_idx>>
           ELSE /\ files' = files \cup {_fold_dir_path(lconf, f),
                                        _index_file_path(_fold_dir_path(lconf, f), lconf)}
                /\ log' = Append(log, Event("fold", lconf.dataset, f, ""))
                /\ fold' = f
                /\ ei' = 1
                /\ fold_idx' = << >>
                /\ pc' = "learn"
    /\ UNCHANGED <<data, evalDirs, scratchDirs, evalTs, scratchTs, foldFile, status,
                   resume, eval_dir, scratch_dir, ci, idx, running, completed,
                   startCompleted>>

\* _do_fold, lines 414-415
FoldReport ==
    /\ pc = "foldreport"
    /\ files' = files \cup _mk_report(_fold_dir_path(lconf, fold), lconf)
    /\ log' = Append(log, Event("fold_report", lconf.dataset, fold, ""))
    /\ fold' = NoFold
    /\ ei' = 0
    /\ pc' = "folds"
    /\ UNCHANGED <<data, evalDirs, scratchDirs, evalTs, scratchTs, foldFile, status,
                   resume, eval_dir, scratch_dir, ci, todo, idx, fold_idx, running,
                   completed, startCompleted>>

\* ------------------------------------------------------------------ tuple

econf == EVALUATIONS[ei]

\* mutant: "or" for the "and" of line 328
ModelsExist_Or(fs, lc, ec, fld) ==
    \/ Exists(fs, _eval_model_path(lc, ec, fld, "attach"))
    \/ Exists(fs, _eval_model_path(lc, ec, fld, "relate"))

\* mutant: line 328 checks the attachment model alone
ModelsExist_AttachOnly(fs, lc, ec, fld) ==
    Exists(fs, _eval_model_path(lc, ec, fld, "attach"))

\* line 328
ModelsExist(fs, lc, ec, fld) ==
    /\ Exists(fs, _eval_model_path(lc, ec, fld, "attach"))
    /\ Exists(fs, _eval_model_path(lc, ec, fld, "relate"))

\* mutant: the condition of line 339 is inverted
CountsExist_Inverted(fs, lc, ec, fld) == ~Exists(fs, _counts_file_path(lc, ec, fld))

\* line 339
CountsExist(fs, lc, ec, fld) == Exists(fs, _counts_file_path(lc, ec, fld))

Call(op) == [op |-> op, ds |-> lconf.dataset, fold |-> fold, econf |-> econf.name]

\* _maybe_learn, lines 322-332, up to the call of the learner
MaybeLearn ==
    /\ pc = "learn"
    /\ files' = files \cup {_fold_dir_path(lconf, fold)}
    /\ IF ModelsExist(files, lconf, econf, fold)
       THEN /\ log' = Append(log, Event("reuse", lconf.dataset, fold, econf.name))
            /\ pc' = "decode"
            /\ UNCHANGED running
       ELSE /\ log' = Append(log, Event("learn", lconf.dataset, fold, econf.name))
            /\ running' = running \cup {Call("learn")}
            /\ pc' = "learning"
    /\ UNCHANGED <<data, evalDirs, scratchDirs, evalTs, scratchTs, foldFile, status,
                   resume, eval_dir, scratch_dir, ci, todo, fold, ei, idx, fold_idx,
                   completed, startCompleted>>

\* att.learn.main_for_harness returns
LearnReturns ==
    /\ pc = "learning"
    /\ files' = files \cup LearnerOutput(lconf, econf, fold)
    /\ running' = running \ {Call("learn")}
    /\ pc' = "decode"
    /\ UNCHANGED <<data, evalDirs, scratchDirs, evalTs, scratchTs, foldFile, status,
                   resume, eval_dir, scratch_dir, ci, todo, fold, ei, idx, fold_idx,
                   log, completed, startCompleted>>

\* mutant: the report of line 415 is indented into the loop of line 409
AfterTuple_ReportInLoop(i) == "foldreport"

\* for econf in EVALUATIONS, lines 409-415: the step after a _do_tuple
AfterTuple(i) == IF i < Len(EVALUATIONS) THEN "learn" ELSE "foldreport"

\* _do_tuple returns its entry and _do_fold writes it to both indexes,
\* lines 388-390 and 411-413
WriteRow ==
    /\ idx' = Append(idx, IdxEntry(econf, fold))
    /\ fold_idx' = Append(fold_idx, IdxEntry(econf, fold))
    /\ pc' = AfterTuple(ei)
    /\ ei' = IF AfterTuple(ei) = "learn" THEN ei + 1 ELSE ei

\* _decode, lines 339-353, up to the call of the decoder
Decode ==
    /\ pc = "decode"
    /\ IF CountsExist(files, lconf, econf, fold)
       THEN /\ log' = log \o <<Event("decode_skip", lconf.dataset, fold, econf.name),
                               Event("row", lconf.dataset, fold, econf.name)>>
            /\ WriteRow
            /\ UNCHANGED <<files, running>>
       ELSE /\ files' = files \cup {_fold_dir_path(lconf, fold)}
            /\ log' = Append(log, Event("decode", lconf.dataset, fold, econf.name))
            /\ running' = running \cup {Call("decode")}
            /\ pc' = "decoding"
            /\ UNCHANGED <<ei, idx, fold_idx>>
    /\ UNCHANGED <<data, evalDirs, scratchDirs, evalTs, scratchTs, foldFile, status,
                   resume, eval_dir, scratch_dir, ci, todo, fold, completed,
                   startCompleted>>

\* att.decode.main_for_harness returns
DecodeReturns ==
    /\ pc = "decoding"
    /\ files' = files \cup DecoderOutput(lconf, econf, fold)
    /\ running' = running \ {Call("decode")}
    /\ log' = Append(log, Event("row", lconf.dataset, fold, econf.name))
    /\ WriteRow
    /\ UNCHANGED <<data, evalDirs, scratchDirs, evalTs, scratchTs, foldFile, status,
                   resume, eval_dir, scratch_dir, ci, todo, fold, completed,
                   startCompleted>>

\* ------------------------------------------------------------ interruption

\* the process is killed between two steps
Kill ==
    /\ pc # "stopped"
    /\ Stopped("killed")
    /\ UNCHANGED <<fsvars, completed>>

\* the process is killed in the learner, after the attachment model is saved
\* and before the relation model is
LearnKilled ==
    /\ pc = "learning"
    /\ files' = files \cup {_eval_model_path(lconf, econf, fold, "attach")}
    /\ Stopped("killed")
    /\ UNCHANGED <<data, evalDirs, scratchDirs, evalTs, scratchTs, foldFile, completed>>

Next ==
    \/ MainStart
    \/ MainKilledInCreate
    \/ DoCorpus
    \/ DoFold
    \/ MaybeLearn
    \/ LearnReturns
    \/ Decode
    \/ DecodeReturns
    \/ FoldReport
    \/ CorpusReport
    \/ Kill
    \/ LearnKilled

Spec == Init /\ [][Next]_vars

\* ---------------------------------------------------------------- claims

CorpusIndex(ds) == CHOOSE i \in 1..Len(TRAINING_CORPORA) : TRAINING_CORPORA[i] = ds
EvalNames == {EVALUATIONS[i].name : i \in 1..Len(EVALUATIONS)}
Count(op, ds, fld, name) ==
    Cardinality({k \in 1..Len(log) : log[k] = Event(op, ds, fld, name)})
Happened(op, ds, fld, name) == \E k \in 1..Len(log) : log[k] = Event(op, ds, fld, name)
ModelAndCountsFiles(fs) == {p \in fs : p.kind \in {"model", "counts"}}
ModelFiles(fs) == {p \in fs : p.kind = "model"}
InCorpus == pc \in {"folds", "learn", "learning", "decode", "decoding", "foldreport"}

\* C1: a fresh run of main that completes has invoked the decoder exactly
\* once for every (corpus, fold of the corpus's fold file, configuration)
C1_FreshRunDecodesEveryTriple ==
    (status = "done" /\ ~resume) =>
        \A ds \in Datasets : \A f \in Range(foldFile[ds]) : \A name \in EvalNames :
            Count("decode", ds, f, name) = 1

\* what holds of every state of a run, and of every step, when data is missing
C2_StateOk ==
    /\ pc # "stopped" => data.exists
    /\ ~data.exists => (files = {} /\ evalDirs = {} /\ log = << >>)
    /\ InCorpus => Exists(files, _edu_input_path(lconf))
    /\ status = "ungathered" =>
        /\ pc = "stopped"
        /\ \A k \in 1..Len(log) : CorpusIndex(log[k].ds) < ci

C2_StepOk ==
    /\ (pc = "stopped" /\ ~data.exists) => (pc' = "stopped" /\ status' = "ungathered")
    /\ (pc = "corpus" /\ ~Exists(files, _edu_input_path(lconf))) =>
        /\ pc' = "stopped"
        /\ status' \in {"ungathered", "killed"}
        /\ files' = files /\ foldFile' = foldFile

\* C2: a run whose data directory is missing never starts; a corpus whose EDU
\* input is missing ends the run with the message of _exit_ungathered before
\* any fold generation, learner, decoder or report step of that corpus or of
\* a later corpus
C2_MissingDataAborts == [](C2_StateOk) /\ [][C2_StepOk]_vars

C2_Witness ==
    /\ status = "ungathered"
    /\ ci = 2
    /\ Happened("corpus_report", TRAINING_CORPORA[1], NoFold, "")

\* a step of _maybe_learn that the process survives
C3_StepOk ==
    (pc = "learn" /\ pc' # "stopped") =>
        LET both == /\ _eval_model_path(lconf, econf, fold, "attach") \in files
                    /\ _eval_model_path(lconf, econf, fold, "relate") \in files
        IN  /\ pc' \in {"learning", "decode"}
            /\ (pc' = "learning") <=> ~both
            /\ (Call("learn") \in running') <=> ~both
            /\ (Len(log') = Len(log) + 1 /\ log'[Len(log')].op = "learn") <=> ~both
            /\ both => ModelFiles(files') = ModelFiles(files)

\* C3: _maybe_learn invokes the learner iff the attachment or the relation
\* model file of (dataset, learner, fold) is missing; a missing file is no
\* error, and with both present no model file changes
C3_LearnIffModelMissing == [][C3_StepOk]_vars

C3_Witness ==
    /\ pc = "learning"
    /\ _eval_model_path(lconf, econf, fold, "attach") \in files
    /\ _eval_model_path(lconf, econf, fold, "relate") \notin files

\* a step of _decode that the process survives
C4_StepOk ==
    (pc = "decode" /\ pc' # "stopped") =>
        LET done == _counts_file_path(lconf, econf, fold) \in files
        IN  /\ (pc' = "decoding") <=> ~done
            /\ (Call("decode") \in running') <=> ~done
            /\ done => (files' = files /\ running' = running)

\* C4: _decode invokes the decoder iff the counts file of (fold, econf.name)
\* is missing; with the file present it changes nothing on disk
C4_DecodeIffCountsMissing == [][C4_StepOk]_vars

C4_Witness ==
    /\ \E k \in 1..Len(log) : log[k].op = "decode_skip"
    /\ \E k \in 1..Len(log) : log[k].op = "decode"

\* a step of, or into, a --resume run started on a completed directory pair
C5_StepOk ==
    startCompleted' =>
        /\ running' = {}
        /\ pc' \notin {"learning", "decoding"}
        /\ ModelAndCountsFiles(files') = ModelAndCountsFiles(files)

\* C5: a --resume run started on directories on which a run has completed
\* invokes neither the learner nor the decoder and leaves the set of model
\* and counts files as it was
C5_ResumeAfterCompletionIdempotent == [][C5_StepOk]_vars

C5_Witness ==
    /\ startCompleted
    /\ status = "done"
    /\ \A ds \in Datasets : \A f \in FoldVals : Happened("fold_skip", ds, f, "")

\* C6: at most one learner or decoder call is in progress; a fold's report
\* comes after the rows of all its configurations, with no step of another
\* fold in between; a corpus's report comes after all its folds are reported
\* or skipped, and is the last step of that corpus
C6_Sequential ==
    /\ Cardinality(running) <= 1
    /\ running # {} => pc \in {"learning", "decoding"}
    /\ \A k \in 1..Len(log) :
        /\ log[k].op = "fold_report" =>
            \A name \in EvalNames :
                \E j \in 1..(k - 1) : log[j] = Event("row", log[k].ds, log[k].fold, name)
        /\ log[k].op = "fold" =>
            \A m \in k..Len(log) :
                \/ log[m].ds = log[k].ds /\ log[m].fold = log[k].fold
                \/ \E j \in k..(m - 1) :
                        log[j] = Event("fold_report", log[k].ds, log[k].fold, "")
        /\ log[k].op = "corpus_report" =>
            /\ \A f \in Range(foldFile[log[k].ds]) :
                \E j \in 1..(k - 1) :
                    \/ log[j] = Event("fold_report", log[k].ds, f, "")
                    \/ log[j] = Event("fold_skip", log[k].ds, f, "")
            /\ \A j \in 1..(k - 1) : CorpusIndex(log[j].ds) <= CorpusIndex(log[k].ds)
            /\ \A j \in (k + 1)..Len(log) : CorpusIndex(log[j].ds) > CorpusIndex(log[k].ds)

C6_Witness ==
    /\ status = "done"
    /\ \A ds \in Datasets : \A f \in FoldVals :
        Happened("fold_report", ds, f, "")

\* C7: in a --resume run _do_corpus leaves an existing fold file alone and
\* does not run fold generation again
C7_ResumeKeepsFoldFile ==
    [][(pc = "corpus" /\ resume /\ foldFile[lconf.dataset] # NoFile /\ pc' = "folds") =>
            (foldFile' = foldFile /\ log' = log)]_vars

\* C8: the index a corpus report is made from holds exactly one row for
\* every (fold, configuration) of the corpus, skipped folds included
C8_IndexCoversEveryFold ==
    \A k \in 1..Len(log) :
        log[k].op = "corpus_report" =>
            \A f \in Range(foldFile[log[k].ds]) : \A name \in EvalNames :
                Cardinality({j \in 1..Len(log[k].idx) :
                    log[k].idx[j] = [config |-> name, fold |-> f]}) = 1

\* C9: while the decoder runs for (dataset, fold, econf), the attachment and
\* the relation model of (dataset, econf.learner, fold) exist
C9_ModelsExistWhenDecoding ==
    pc = "decoding" =>
        /\ Call("decode") \in running
        /\ _eval_model_path(lconf, econf, fold, "attach") \in files
        /\ _eval_model_path(lconf, econf, fold, "relate") \in files

C9_Witness ==
    /\ pc = "decoding"
    /\ Happened("reuse", lconf.dataset, fold, econf.name)
    /\ resume

\* a step of main through _create_eval_dirs
C10_StepOk ==
    /\ (pc = "stopped" /\ pc' = "corpus" /\ resume') =>
        /\ CurrentExists(evalDirs, evalTs)
        /\ CurrentExists(scratchDirs, scratchTs)
        /\ eval_dir' = evalTs
        /\ scratch_dir' = scratchTs
        /\ UNCHANGED <<evalDirs, scratchDirs, evalTs, scratchTs, foldFile>>
    /\ (pc = "stopped" /\ status' = "noresume") =>
        /\ ~CurrentExists(evalDirs, evalTs) \/ ~CurrentExists(scratchDirs, scratchTs)
        /\ UNCHANGED fsvars
    /\ (pc = "stopped" /\ pc' = "corpus" /\ ~resume') =>
        /\ eval_dir' \in evalDirs' \ evalDirs
        /\ scratch_dir' \in scratchDirs' \ scratchDirs
        /\ evalTs' = eval_dir'
        /\ scratchTs' = scratch_dir'

\* C10: with --resume main goes on only when eval-current and scratch-current
\* both exist, and then with exactly these two directories; otherwise it
\* stops with "No currently running evaluation to resume!"; either way no
\* directory is made and no symlink is moved.  A run without --resume that
\* goes on has made a new eval and a new scratch directory and points both
\* symlinks at them
C10_ResumeCreatesNothing == [][C10_StepOk]_vars

C10_Witness ==
    /\ status = "noresume"
    /\ CurrentExists(evalDirs, evalTs)
    /\ ~CurrentExists(scratchDirs, scratchTs)

====
